---- MODULE Spec2Model ----
(***************************************************************************)
(* Merkle tree with direction-aware inclusion proofs (src/src/tree.rs,     *)
(* src/src/proof.rs, src/src/hasher.rs, src/src/utils.rs).                 *)
(*                                                                         *)
(* A digest is a Vec<u8>: a sequence of bytes 0..255.  The hash function   *)
(* is an ideal (collision-free) hash: the digest of a byte string x is the *)
(* byte 255 followed by x, so that distinct inputs give distinct digests.  *)
(* Leaf digests handed to the tree are two bytes long and never start with *)
(* byte 255, which makes every digest a uniquely parseable term and hence  *)
(* hash_pair injective on ordered pairs of digests.                        *)
(***************************************************************************)
EXTENDS Naturals, Integers, Sequences, FiniteSets, TLC

VARIABLES
    input,      \* the leaf digests handed to MerkleTree::new
    phase,      \* "start", "built" (new returned) or "panicked" (new aborted)
    tree,       \* the MerkleTree new returned: leaves, nodes, height
    other,      \* a second tree, built from a reordering of the same input
    call,       \* the last generate_proof / generate_proof_by_value call
    proof,      \* the MerkleProof the caller holds (its fields are public)
    origin,     \* where that proof comes from, and which item was altered
    formatted,  \* the last to_debug_format output
    verdict     \* the last verification call and what it returned

vars == <<input, phase, tree, other, call, proof, origin, formatted, verdict>>

(* ------------------------------ bounds -------------------------------- *)

\* Largest number of leaf digests handed to MerkleTree::new.
MaxLeaves == 3

\* Largest number of proof items of a proof assembled by hand.
MaxForgedItems == 1

\* The leaf digests callers hand in (pre-hashed, equal length).
LeafSet == { <<0, 1>>, <<0, 171>>, <<18, 0>>, <<18, 52>> }

(* ------------------------------ helpers ------------------------------- *)

Range(f) == { f[x] : x \in DOMAIN f }

RECURSIVE Pow2(_)
Pow2(n) == IF n = 0 THEN 1 ELSE 2 * Pow2(n - 1)

\* usize::is_power_of_two
is_power_of_two(n) == \E k \in 0..n : Pow2(k) = n

\* usize::next_power_of_two: the smallest power of two >= n (1 for n = 0)
RECURSIVE NextPow2From(_, _)
NextPow2From(p, n) == IF p >= n THEN p ELSE NextPow2From(2 * p, n)

next_power_of_two(n) == NextPow2From(1, n)

\* usize::trailing_zeros for n > 0
RECURSIVE trailing_zeros(_)
trailing_zeros(n) == IF n % 2 = 1 THEN 0 ELSE 1 + trailing_zeros(n \div 2)

(* ------------------------------ hasher -------------------------------- *)

\* The underlying digest algorithm (Sha256::update* then finalize), as an
\* ideal hash of the bytes fed to it.
Digest(bytes) == <<255>> \o bytes

\* Hasher::hash_leaf: digest of the data.
hash_leaf(data) == Digest(data)

\* Hasher::hash_pair: digest of left || right (no domain separation).
hash_pair_swapped(left, right) == Digest(right \o left)

hash_pair(left, right) == Digest(left \o right)

(* --------------------------- Vec<u8> ordering ------------------------- *)

\* Ord for Vec<u8>: lexicographic by byte, a proper prefix sorts first.
RECURSIVE BytesLess(_, _)
BytesLess(a, b) ==
    IF b = <<>> THEN FALSE
    ELSE IF a = <<>> THEN TRUE
    ELSE IF Head(a) < Head(b) THEN TRUE
    ELSE IF Head(a) > Head(b) THEN FALSE
    ELSE BytesLess(Tail(a), Tail(b))

BytesLeq(a, b) == a = b \/ BytesLess(a, b)

\* Insert x into the sorted sequence s, after the elements equal to it.
RECURSIVE SortedInsert(_, _)
SortedInsert(s, x) ==
    IF s = <<>> THEN <<x>>
    ELSE IF BytesLess(x, Head(s)) THEN <<x>> \o s
    ELSE <<Head(s)>> \o SortedInsert(Tail(s), x)

\* Vec::sort (stable, ascending)
RECURSIVE SortLeaves(_)
SortLeaves(s) ==
    IF s = <<>> THEN <<>>
    ELSE SortedInsert(SortLeaves(SubSeq(s, 1, Len(s) - 1)), s[Len(s)])

\* leaves.sort() in MerkleTree::new
leaves_unsorted(ls) == ls

leaves_sort(ls) == SortLeaves(ls)

(* ------------------------------- tree --------------------------------- *)

\* A node table with no entries (HashMap::new()).
EmptyNodes == [k \in {} |-> <<>>]

\* HashMap::get on the node table: is there an entry for (level, position)?
HasNode(nodes, level, pos) == <<level, pos>> \in DOMAIN nodes

\* build, padding part: repeat the last leaf until target_length is reached.
PadLeavesWithFirst(leaves, target_length) ==
    IF Len(leaves) < target_length
    THEN leaves \o [j \in 1..(target_length - Len(leaves)) |-> leaves[1]]
    ELSE leaves

PadLeaves(leaves, target_length) ==
    IF Len(leaves) < target_length
    THEN LET last_leaf == leaves[Len(leaves)]
         IN  leaves \o [j \in 1..(target_length - Len(leaves)) |-> last_leaf]
    ELSE leaves

\* build, level 0: nodes.insert((0, i), leaf) for every padded leaf.
LeafNodes(leaves) ==
    [k \in { <<0, i>> : i \in 0..(Len(leaves) - 1) } |-> leaves[k[2] + 1]]

\* build, inner loop body: the parent of positions 2i and 2i+1 of a level.
ParentOfLeftTwice(nodes, level, i) ==
    hash_pair(nodes[<<level, i * 2>>], nodes[<<level, i * 2>>])

ParentOf(nodes, level, i) ==
    LET left  == nodes[<<level, i * 2>>]
        right == nodes[<<level, i * 2 + 1>>]
    IN  hash_pair(left, right)

\* build, outer loop: for level in 0..height-1, fill level+1 from level.
RECURSIVE BuildLevels(_, _, _)
BuildLevels(nodes, level, height) ==
    IF level >= height - 1 THEN nodes
    ELSE LET next_level_width == Pow2(height - 2 - level)
             parents == [k \in { <<level + 1, i>> : i \in 0..(next_level_width - 1) }
                            |-> ParentOf(nodes, level, k[2])]
         IN  BuildLevels(parents @@ nodes, level + 1, height)

\* MerkleTree::build on a tree with the given leaves and height.
build(leaves, height) ==
    LET target_length == Pow2(height - 1)
        padded == PadLeaves(leaves, target_length)
    IN  [leaves |-> padded,
         nodes  |-> BuildLevels(LeafNodes(padded), 0, height),
         height |-> height]

\* The value a caller holds when no tree was produced.
NoTree == [leaves |-> <<>>, nodes |-> EmptyNodes, height |-> 0]

\* MerkleTree::new: panics on no leaves; else sort, compute height, build.
MerkleTree_new_unchecked(ls) ==
    IF ls = <<>>
    THEN [panicked |-> FALSE, tree |-> NoTree]
    ELSE LET sorted == leaves_sort(ls)
             np2 == IF is_power_of_two(Len(sorted))
                    THEN Len(sorted)
                    ELSE next_power_of_two(Len(sorted))
             height == trailing_zeros(np2) + 1
         IN  [panicked |-> FALSE, tree |-> build(sorted, height)]

MerkleTree_new(ls) ==
    IF ls = <<>>
    THEN [panicked |-> TRUE, tree |-> NoTree]
    ELSE LET sorted == leaves_sort(ls)
             np2 == IF is_power_of_two(Len(sorted))
                    THEN Len(sorted)
                    ELSE next_power_of_two(Len(sorted))
             height == trailing_zeros(np2) + 1
         IN  [panicked |-> FALSE, tree |-> build(sorted, height)]

\* MerkleTree::root
root(t) == t.nodes[<<t.height - 1, 0>>]

\* MerkleTree::leaf_count
leaf_count(t) == Len(t.leaves)

\* MerkleTree::get_leaf: Some(leaf) inside the vector, None outside.
get_leaf(t, index) ==
    IF index < Len(t.leaves)
    THEN [some |-> TRUE, value |-> t.leaves[index + 1]]
    ELSE [some |-> FALSE, value |-> <<>>]

\* MerkleTree::find_leaf_index: position of the first equal leaf.
find_leaf_index(t, leaf_value) ==
    LET hits == { i \in 0..(Len(t.leaves) - 1) : t.leaves[i + 1] = leaf_value }
    IN  IF hits = {}
        THEN [some |-> FALSE, value |-> 0]
        ELSE [some |-> TRUE, value |-> CHOOSE i \in hits : \A j \in hits : i <= j]

(* ------------------------------- proof -------------------------------- *)

\* MerkleProof::new (the hasher is the one strategy modelled above).
MerkleProof_new(leaf, proof_items) == [leaf |-> leaf, proof_items |-> proof_items]

\* The value a caller holds when it has no proof.
NoProof == MerkleProof_new(<<>>, <<>>)

\* calculate_root, loop body: fold one proof item into the running digest.
fold_item_ignoring_direction(current, item) == hash_pair(current, item.hash)

fold_item(current, item) ==
    IF item.is_left
    THEN hash_pair(item.hash, current)
    ELSE hash_pair(current, item.hash)

\* calculate_root, loop: fold the items in order, starting from `current`.
RECURSIVE FoldItems(_, _)
FoldItems(current, items) ==
    IF items = <<>> THEN current
    ELSE FoldItems(fold_item(current, Head(items)), Tail(items))

\* MerkleProof::calculate_root
calculate_root(p) == FoldItems(p.leaf, p.proof_items)

\* MerkleProof::verify
verify(p, r) == calculate_root(p) = r

\* MerkleTree::verify_proof
verify_proof(t, p) == root(t) = calculate_root(p)

(* --------------------------- proof generation ------------------------- *)

\* generate_proof, bounds check.
index_past_end_only(t, leaf_index) == leaf_index > Len(t.leaves)

index_out_of_bounds(t, leaf_index) == leaf_index >= Len(t.leaves)

\* generate_proof, loop body: position of the sibling of current_index.
sibling_always_right(current_index) == current_index + 1

sibling_index_of(current_index) ==
    LET is_right_child == current_index % 2 = 1
    IN  IF is_right_child THEN current_index - 1 ELSE current_index + 1

\* generate_proof, loop body: the direction flag of the item pushed.
is_left_inverted(current_index) == current_index % 2 = 0

is_left_of(current_index) == current_index % 2 = 1

\* generate_proof, loop: walk the levels 0..height-2 from current_index.
\* `fallback` records whether the else branch (current node as its own
\* sibling) was taken; `panic` records an unwrap() on a missing node.
RECURSIVE ProofWalk(_, _, _, _)
ProofWalk(t, level, current_index, acc) ==
    IF level >= t.height - 1 \/ acc.panic THEN acc
    ELSE LET sibling_index == sibling_index_of(current_index)
             is_left == is_left_of(current_index)
         IN  IF HasNode(t.nodes, level, sibling_index)
             THEN ProofWalk(t, level + 1, current_index \div 2,
                    [acc EXCEPT !.items = Append(@,
                        [hash |-> t.nodes[<<level, sibling_index>>],
                         is_left |-> is_left])])
             ELSE IF HasNode(t.nodes, level, current_index)
             THEN ProofWalk(t, level + 1, current_index \div 2,
                    [acc EXCEPT !.items = Append(@,
                        [hash |-> t.nodes[<<level, current_index>>],
                         is_left |-> is_left]),
                                !.fallback = TRUE])
             ELSE [acc EXCEPT !.panic = TRUE]

\* MerkleTree::generate_proof: Err, Ok(proof) or a panic.
generate_proof(t, leaf_index) ==
    IF index_out_of_bounds(t, leaf_index)
    THEN [tag |-> "Err", err |-> "Leaf index out of bounds",
          proof |-> NoProof, fallback |-> FALSE]
    ELSE LET walk == ProofWalk(t, 0, leaf_index,
                        [items |-> <<>>, fallback |-> FALSE, panic |-> FALSE])
         IN  IF walk.panic \/ leaf_index >= Len(t.leaves)
             THEN [tag |-> "Panic", err |-> "", proof |-> NoProof,
                   fallback |-> walk.fallback]
             ELSE [tag |-> "Ok", err |-> "",
                   proof |-> MerkleProof_new(t.leaves[leaf_index + 1], walk.items),
                   fallback |-> walk.fallback]

\* MerkleTree::generate_proof_by_value
generate_proof_by_value(t, leaf_value) ==
    LET found == find_leaf_index(t, leaf_value)
    IN  IF found.some
        THEN generate_proof(t, found.value)
        ELSE [tag |-> "Err", err |-> "Leaf value not found in the tree",
              proof |-> NoProof, fallback |-> FALSE]

(* ------------------------- debug / wire format ------------------------ *)

\* The sixteen digits hex::encode writes.
HexDigits == <<"0", "1", "2", "3", "4", "5", "6", "7",
               "8", "9", "a", "b", "c", "d", "e", "f">>

\* The digits hex::decode also reads.
HexUpper == <<"0", "1", "2", "3", "4", "5", "6", "7",
              "8", "9", "A", "B", "C", "D", "E", "F">>

\* hex::encode: two lower-case digits per byte, high nibble first.
RECURSIVE hex_encode(_)
hex_encode(bytes) ==
    IF bytes = <<>> THEN <<>>
    ELSE <<HexDigits[(Head(bytes) \div 16) + 1], HexDigits[(Head(bytes) % 16) + 1]>>
         \o hex_encode(Tail(bytes))

\* Value of one hex digit, -1 for any other character.
hex_val(c) ==
    IF \E v \in 1..16 : HexDigits[v] = c
    THEN (CHOOSE v \in 1..16 : HexDigits[v] = c) - 1
    ELSE IF \E v \in 1..16 : HexUpper[v] = c
    THEN (CHOOSE v \in 1..16 : HexUpper[v] = c) - 1
    ELSE -1

\* hex::decode on a well-formed string: one byte per pair of digits.
RECURSIVE hex_decode_pairs(_)
hex_decode_pairs(chars) ==
    IF Len(chars) < 2 THEN <<>>
    ELSE <<hex_val(chars[1]) * 16 + hex_val(chars[2])>>
         \o hex_decode_pairs(SubSeq(chars, 3, Len(chars)))

\* hex::decode: Err on odd length or on a character that is no hex digit.
hex_decode_low_nibble_first(chars) ==
    [ok |-> TRUE,
     bytes |-> [i \in 1..(Len(chars) \div 2) |->
                   hex_val(chars[2 * i]) * 16 + hex_val(chars[2 * i - 1])]]

hex_decode(chars) ==
    IF Len(chars) % 2 = 1 \/ \E i \in 1..Len(chars) : hex_val(chars[i]) = -1
    THEN [ok |-> FALSE, bytes |-> <<>>]
    ELSE [ok |-> TRUE, bytes |-> hex_decode_pairs(chars)]

\* to_debug_format, closure body: one {hash, direction} record per item.
debug_item(item) ==
    [hash |-> hex_encode(item.hash),
     direction |-> IF item.is_left THEN "left" ELSE "right"]

\* MerkleProof::to_debug_format
to_debug_format(p) == [i \in 1..Len(p.proof_items) |-> debug_item(p.proof_items[i])]

\* verify_with_formatted_proof, loop body: decode one record into a ProofItem.
parse_item(rec) ==
    [hash |-> hex_decode(rec.hash).bytes, is_left |-> rec.direction = "left"]

\* verify_with_formatted_proof: panics (unwrap) on undecodable hex.
verify_with_formatted_proof(r, leaf, proof_data) ==
    IF \E i \in 1..Len(proof_data) : ~hex_decode(proof_data[i].hash).ok
    THEN [tag |-> "Panic", result |-> FALSE]
    ELSE LET proof_items == [i \in 1..Len(proof_data) |-> parse_item(proof_data[i])]
         IN  [tag |-> "Ok", result |-> verify(MerkleProof_new(leaf, proof_items), r)]

(* ---------------------------- state machine --------------------------- *)

\* Every input of at most MaxLeaves leaf digests, the empty one included.
Inputs == UNION { [1..n -> LeafSet] : n \in 0..MaxLeaves }

\* A digest that is no leaf and no node of any tree built here (the tests'
\* hash_leaf("different")).
DifferentDigest == hash_leaf(<<100>>)

\* Digests a caller can put into a proof: the leaf digests, every node of
\* the tree, and a foreign digest.
Pool(t) == LeafSet \cup Range(t.nodes) \cup {DifferentDigest}

NoOther == [built |-> FALSE, reordered |-> FALSE, tree |-> NoTree]

NoCall == [op |-> "none", index |-> 0, value |-> <<>>, tag |-> "none",
           err |-> "", fallback |-> FALSE]

NoOrigin == [kind |-> "none", pos |-> 0]

NoFormatted == [some |-> FALSE, data |-> <<>>]

NoVerdict == [kind |-> "none", root |-> <<>>, tag |-> "none", result |-> FALSE]

Init ==
    /\ input \in Inputs
    /\ phase = "start"
    /\ tree = NoTree
    /\ other = NoOther
    /\ call = NoCall
    /\ proof = NoProof
    /\ origin = NoOrigin
    /\ formatted = NoFormatted
    /\ verdict = NoVerdict

\* MerkleTree::new(input, hasher)
New ==
    /\ phase = "start"
    /\ LET r == MerkleTree_new(input)
       IN  /\ phase' = IF r.panicked THEN "panicked" ELSE "built"
           /\ tree' = r.tree
    /\ UNCHANGED <<input, other, call, proof, origin, formatted, verdict>>

\* MerkleTree::new on the same leaf digests in the order p gives them.
NewReordered(p) ==
    /\ phase = "built"
    /\ ~other.built
    /\ LET ls == [i \in 1..Len(input) |-> input[p[i]]]
           r == MerkleTree_new(ls)
       IN  /\ ~r.panicked
           /\ other' = [built |-> TRUE, reordered |-> ls # input, tree |-> r.tree]
    /\ UNCHANGED <<input, phase, tree, call, proof, origin, formatted, verdict>>

\* The caller's state after a proof request that returned r.
Requested(op, index, value, r) ==
    /\ call' = [op |-> op, index |-> index, value |-> value, tag |-> r.tag,
                err |-> r.err, fallback |-> r.fallback]
    /\ proof' = r.proof
    /\ origin' = IF r.tag = "Ok" THEN [kind |-> "generated", pos |-> 0] ELSE NoOrigin
    /\ formatted' = NoFormatted
    /\ verdict' = NoVerdict
    /\ UNCHANGED <<input, phase, tree, other>>

\* tree.generate_proof(leaf_index)
GenerateProof(leaf_index) ==
    /\ phase = "built"
    /\ call.op = "none"
    /\ Requested("generate_proof", leaf_index, <<>>, generate_proof(tree, leaf_index))

\* tree.generate_proof_by_value(leaf_value)
GenerateProofByValue(leaf_value) ==
    /\ phase = "built"
    /\ call.op = "none"
    /\ Requested("generate_proof_by_value", 0, leaf_value,
                 generate_proof_by_value(tree, leaf_value))

\* The holder of a generated proof overwrites the sibling digest of item k.
ReplaceSibling(k, d) ==
    /\ origin.kind = "generated"
    /\ ~formatted.some
    /\ verdict.kind = "none"
    /\ k \in 1..Len(proof.proof_items)
    /\ d # proof.proof_items[k].hash
    /\ proof' = [proof EXCEPT !.proof_items[k].hash = d]
    /\ origin' = [kind |-> "sibling_replaced", pos |-> k]
    /\ formatted' = NoFormatted
    /\ verdict' = NoVerdict
    /\ UNCHANGED <<input, phase, tree, other, call>>

\* The holder of a generated proof swaps the direction flag of item k.
SwapDirection(k) ==
    /\ origin.kind = "generated"
    /\ ~formatted.some
    /\ verdict.kind = "none"
    /\ k \in 1..Len(proof.proof_items)
    /\ proof' = [proof EXCEPT !.proof_items[k].is_left = ~@]
    /\ origin' = [kind |-> "flag_swapped", pos |-> k]
    /\ formatted' = NoFormatted
    /\ verdict' = NoVerdict
    /\ UNCHANGED <<input, phase, tree, other, call>>

\* A proof assembled by hand with MerkleProof::new, not taken from the tree.
Forge(leaf, items) ==
    /\ phase = "built"
    /\ origin.kind = "none"
    /\ proof' = MerkleProof_new(leaf, items)
    /\ origin' = [kind |-> "forged", pos |-> 0]
    /\ formatted' = NoFormatted
    /\ verdict' = NoVerdict
    /\ UNCHANGED <<input, phase, tree, other, call>>

\* tree.verify_proof(&proof)
VerifyProof ==
    /\ phase = "built"
    /\ origin.kind # "none"
    /\ verdict.kind = "none"
    /\ verdict' = [kind |-> "verify_proof", root |-> root(tree), tag |-> "Ok",
                   result |-> verify_proof(tree, proof)]
    /\ UNCHANGED <<input, phase, tree, other, call, proof, origin, formatted>>

\* The roots a proof is verified against: the tree's root, the root the
\* proof folds to, and a foreign digest.
RootCandidates == {root(tree), calculate_root(proof), DifferentDigest}

\* proof.verify(r)
Verify ==
    /\ origin.kind # "none"
    /\ verdict.kind = "none"
    /\ \E r \in RootCandidates :
          verdict' = [kind |-> "verify", root |-> r, tag |-> "Ok",
                      result |-> verify(proof, r)]
    /\ UNCHANGED <<input, phase, tree, other, call, proof, origin, formatted>>

\* proof.to_debug_format()
ToDebugFormat ==
    /\ origin.kind # "none"
    /\ ~formatted.some
    /\ verdict.kind = "none"
    /\ formatted' = [some |-> TRUE, data |-> to_debug_format(proof)]
    /\ UNCHANGED <<input, phase, tree, other, call, proof, origin, verdict>>

\* verify_with_formatted_proof(r, proof.leaf, formatted, hasher)
VerifyWithFormattedProof ==
    /\ formatted.some
    /\ verdict.kind = "none"
    /\ \E r \in RootCandidates :
          LET v == verify_with_formatted_proof(r, proof.leaf, formatted.data)
          IN  verdict' = [kind |-> "verify_with_formatted_proof", root |-> r,
                          tag |-> v.tag, result |-> v.result]
    /\ UNCHANGED <<input, phase, tree, other, call, proof, origin, formatted>>

\* Proof items a hand-made proof may carry.
ForgedItems ==
    UNION { [1..n -> [hash : Pool(tree), is_left : BOOLEAN]] : n \in 0..MaxForgedItems }

\* One run of a caller: build the tree, request one proof, possibly alter
\* one item of it, possibly serialise it, verify it once.  Every operation
\* after new takes &self, so a run shows all a longer one could.
Next ==
    \/ New
    \/ \E i \in 0..(leaf_count(tree) + 1) : GenerateProof(i)
    \/ \E d \in LeafSet : GenerateProofByValue(d)
    \/ \E k \in 1..Len(proof.proof_items), d \in Pool(tree) : ReplaceSibling(k, d)
    \/ \E k \in 1..Len(proof.proof_items) : SwapDirection(k)
    \/ VerifyProof
    \/ Verify
    \/ ToDebugFormat
    \/ VerifyWithFormattedProof

Spec == Init /\ [][Next]_vars

\* Construction alone: the tree, and a second tree from a reordered input.
NextBuild ==
    \/ New
    \/ \E p \in Permutations(1..Len(input)) : NewReordered(p)

SpecBuild == Init /\ [][NextBuild]_vars

\* A verifier handed proofs that were not taken from the tree.
NextForge ==
    \/ New
    \/ \E leaf \in Pool(tree), items \in ForgedItems : Forge(leaf, items)
    \/ VerifyProof
    \/ Verify

SpecForge == Init /\ [][NextForge]_vars

(* ------------------------------ properties ---------------------------- *)

\* The hash is ideal on the digests in play: hash_pair is injective on
\* ordered pairs and none of its outputs is a leaf digest.  This is the
\* collision-freeness C2 and C10 assume.
IdealHash ==
    phase = "built" =>
        /\ \A a, b, c, d \in Pool(tree) :
              hash_pair(a, b) = hash_pair(c, d) => (a = c /\ b = d)
        /\ \A a, b \in Pool(tree) : hash_pair(a, b) \notin LeafSet

\* The proof in hand is the one generate_proof / generate_proof_by_value
\* returned, unaltered.
Generated == origin.kind = "generated"

\* The index the last successful request resolved to.
RequestedIndex ==
    IF call.op = "generate_proof" THEN call.index
    ELSE find_leaf_index(tree, call.value).value

\* The last verification compared the proof in hand with the tree's root.
VerdictAgainstRoot ==
    \/ verdict.kind = "verify_proof"
    \/ verdict.kind = "verify" /\ verdict.root = root(tree)

\* C1 (round-trip fold): generate_proof(i) for every i below leaf_count(),
\* padding slots included, returns Ok, and the proof it returns folds to the
\* tree's root, so tree.verify_proof answers true.
RoundTripFold ==
    /\ (call.op = "generate_proof" /\ call.index < leaf_count(tree))
          => call.tag = "Ok"
    /\ Generated => /\ calculate_root(proof) = root(tree)
                    /\ verify_proof(tree, proof)
    /\ (Generated /\ verdict.kind = "verify_proof") => verdict.result

\* C1 witness: the proof of the padding slot of a three-leaf tree was
\* generated and verify_proof answered true.
RoundTripFoldWitness ==
    /\ Len(input) = 3
    /\ call.op = "generate_proof"
    /\ call.index = 3
    /\ Generated
    /\ Len(proof.proof_items) = 2
    /\ verdict.kind = "verify_proof"
    /\ verdict.result

\* The digest the fold has reached just before item k of the proof in hand.
RunningDigest(k) == FoldItems(proof.leaf, SubSeq(proof.proof_items, 1, k - 1))

\* C2 as stated (tamper detection): a generated proof with the sibling digest
\* of one item replaced by a different digest, or with the direction flag
\* of one item swapped, does not verify against the tree's root.
TamperDetection ==
    origin.kind \in {"sibling_replaced", "flag_swapped"}
        => ~verify(proof, root(tree))

\* C2 amended: a replaced sibling digest is always detected; a swapped
\* direction flag is detected exactly when the item's sibling digest differs
\* from the digest folded so far (it is equal for a padding slot and for
\* duplicate leaves, and then the swapped proof still verifies).
TamperDetectionAmended ==
    /\ origin.kind = "sibling_replaced" => ~verify(proof, root(tree))
    /\ origin.kind = "flag_swapped" =>
          (verify(proof, root(tree))
              <=> proof.proof_items[origin.pos].hash = RunningDigest(origin.pos))
    /\ (origin.kind = "sibling_replaced" /\ VerdictAgainstRoot) => ~verdict.result
    /\ (/\ origin.kind = "flag_swapped"
        /\ VerdictAgainstRoot
        /\ proof.proof_items[origin.pos].hash # RunningDigest(origin.pos))
          => ~verdict.result

\* C2 witness: the flag of the second item of a proof was swapped, its
\* sibling differs from the running digest, and verify answered false.
TamperDetectionWitness ==
    /\ origin.kind = "flag_swapped"
    /\ origin.pos = 2
    /\ proof.proof_items[2].hash # RunningDigest(2)
    /\ verdict.kind = "verify"
    /\ verdict.root = root(tree)
    /\ ~verdict.result

\* The positions of level L of a tree of the given height.
LevelPositions(height, L) == 0..(Pow2(height - 1 - L) - 1)

\* C3 (tree structure): after new, leaf_count() is a power of two, height is
\* log2(leaf_count()) + 1, level L of the node table holds exactly
\* 2^(height-1-L) entries, level 0 is the padded leaves, every parent is
\* hash_pair of its two children, and root() is the only node of the top level.
TreeStructure ==
    phase = "built" =>
        /\ is_power_of_two(leaf_count(tree))
        /\ tree.height >= 1
        /\ Pow2(tree.height - 1) = leaf_count(tree)
        /\ DOMAIN tree.nodes =
              UNION { { <<L, i>> : i \in LevelPositions(tree.height, L) }
                      : L \in 0..(tree.height - 1) }
        /\ \A i \in 0..(leaf_count(tree) - 1) :
              tree.nodes[<<0, i>>] = tree.leaves[i + 1]
        /\ \A L \in 0..(tree.height - 2) :
              \A i \in LevelPositions(tree.height, L + 1) :
                 tree.nodes[<<L + 1, i>>]
                    = hash_pair(tree.nodes[<<L, 2 * i>>], tree.nodes[<<L, 2 * i + 1>>])
        /\ LevelPositions(tree.height, tree.height - 1) = {0}
        /\ root(tree) = tree.nodes[<<tree.height - 1, 0>>]

\* C3 witness: a tree of height 3 whose two level-1 nodes differ.
TreeStructureWitness ==
    /\ phase = "built"
    /\ tree.height = 3
    /\ tree.nodes[<<1, 0>>] # tree.nodes[<<1, 1>>]
    /\ tree.nodes[<<0, 0>>] # tree.nodes[<<0, 1>>]

\* How often digest d occurs among the first n entries of s.
Occurrences(s, n, d) == Cardinality({ i \in 1..n : s[i] = d })

\* C4 (sort-then-pad): the stored leaves number the smallest power of two
\* >= N; their first N entries are the input digests in ascending byte order,
\* duplicates kept; every later entry equals entry N-1; nothing is added when
\* N is a power of two.
SortThenPad ==
    phase = "built" =>
        LET N == Len(input)
            M == leaf_count(tree)
        IN  /\ is_power_of_two(M)
            /\ M >= N
            /\ M = 1 \/ M \div 2 < N
            /\ is_power_of_two(N) => M = N
            /\ \A i \in 1..(N - 1) : BytesLeq(tree.leaves[i], tree.leaves[i + 1])
            /\ \A d \in LeafSet : Occurrences(tree.leaves, N, d) = Occurrences(input, N, d)
            /\ \A i \in 0..(M - 1) :
                  /\ get_leaf(tree, i).some
                  /\ i >= N => get_leaf(tree, i).value = get_leaf(tree, N - 1).value
            /\ ~get_leaf(tree, M).some

\* C4 witness: three distinct digests handed in out of order, padded to four.
SortThenPadWitness ==
    /\ phase = "built"
    /\ Len(input) = 3
    /\ leaf_count(tree) = 4
    /\ BytesLess(input[3], input[1])
    /\ BytesLess(input[1], input[2])
    /\ tree.leaves[4] = input[2]

\* C5 (recoverable lookup failure): generate_proof(i) returns Err exactly when
\* i >= leaf_count(), generate_proof_by_value(d) returns Err exactly when d is
\* none of the padded leaves, neither panics, and after an Err the tree is
\* the one new returned.
RecoverableLookupFailure ==
    /\ call.op = "generate_proof" =>
          /\ call.tag # "Panic"
          /\ call.tag = "Err" <=> call.index >= leaf_count(tree)
          /\ call.tag = "Ok" <=> call.index < leaf_count(tree)
    /\ call.op = "generate_proof_by_value" =>
          /\ call.tag # "Panic"
          /\ call.tag = "Err" <=>
                (\A i \in 1..leaf_count(tree) : tree.leaves[i] # call.value)
          /\ call.tag = "Ok" <=>
                (\E i \in 1..leaf_count(tree) : tree.leaves[i] = call.value)
    /\ call.tag = "Err" =>
          /\ phase = "built"
          /\ tree = MerkleTree_new(input).tree
          /\ proof = NoProof

\* C5 witness: generate_proof at index leaf_count() of a padded tree
\* returned the out-of-bounds error.
RecoverableLookupFailureWitness ==
    /\ call.op = "generate_proof"
    /\ call.index = leaf_count(tree)
    /\ call.index > Len(input)
    /\ call.tag = "Err"
    /\ call.err = "Leaf index out of bounds"

\* C6 (empty input is fatal): new on no leaves panics and leaves no tree;
\* no tree with zero leaves, height 0 or an empty node table is returned.
EmptyInputFatal ==
    /\ (input = <<>> /\ phase # "start") => (phase = "panicked" /\ tree = NoTree)
    /\ phase = "panicked" => input = <<>>
    /\ phase = "built" =>
          /\ leaf_count(tree) >= 1
          /\ tree.height >= 1
          /\ DOMAIN tree.nodes # {}

\* C6 witness: new was called on the empty sequence and panicked.
EmptyInputFatalWitness ==
    /\ input = <<>>
    /\ phase = "panicked"

\* C7 (serialization round-trip): decoding the to_debug_format records gives
\* back the proof items, and verify_with_formatted_proof on them returns what
\* verify returns on the proof, for every root tried.
SerializationRoundTrip ==
    /\ formatted.some =>
          /\ Len(formatted.data) = Len(proof.proof_items)
          /\ \A i \in 1..Len(formatted.data) :
                /\ hex_decode(formatted.data[i].hash).ok
                /\ parse_item(formatted.data[i]) = proof.proof_items[i]
    /\ verdict.kind = "verify_with_formatted_proof" =>
          /\ verdict.tag = "Ok"
          /\ verdict.result = verify(proof, verdict.root)

\* C7 witness: a two-item proof with a left and a right sibling was
\* serialised, rebuilt and verified true against the root.
SerializationRoundTripWitness ==
    /\ verdict.kind = "verify_with_formatted_proof"
    /\ verdict.result
    /\ Len(formatted.data) = 2
    /\ formatted.data[1].direction = "left"
    /\ formatted.data[2].direction = "right"
    /\ formatted.data[1].hash = <<"0", "0", "a", "b">>

\* C8 (root stability): a tree built from any reordering of the same leaf
\* digests has the same root, height and padded leaves.
RootStability ==
    other.built =>
        /\ root(other.tree) = root(tree)
        /\ other.tree.height = tree.height
        /\ other.tree.leaves = tree.leaves

\* C8 witness: a second tree was built from three digests in another order.
RootStabilityWitness ==
    /\ other.built
    /\ other.reordered
    /\ Len(input) = 3
    /\ input[1] # input[2]
    /\ input[2] # input[3]

\* C9 (proof shape): a generated proof carries get_leaf(i) and height-1
\* items; item k is the node next to position floor(i / 2^k) of level k, to
\* its right (is_left false) for an even position and to its left (is_left
\* true) for an odd one; the fallback branch is never taken; the proof of a
\* single-leaf tree has no items and the root is that leaf.
ProofShape ==
    /\ ~call.fallback
    /\ Generated =>
          LET i == RequestedIndex
          IN  /\ i < leaf_count(tree)
              /\ proof.leaf = get_leaf(tree, i).value
              /\ Len(proof.proof_items) = tree.height - 1
              /\ \A k \in 0..(tree.height - 2) :
                    LET p == i \div Pow2(k)
                        item == proof.proof_items[k + 1]
                    IN  IF p % 2 = 0
                        THEN /\ item.hash = tree.nodes[<<k, p + 1>>]
                             /\ item.is_left = FALSE
                        ELSE /\ item.hash = tree.nodes[<<k, p - 1>>]
                             /\ item.is_left = TRUE
              /\ tree.height = 1 => (proof.proof_items = <<>> /\ root(tree) = proof.leaf)

\* C9 witness: the proof of index 2 of a height-3 tree (an even position at
\* level 0, an odd one at level 1).
ProofShapeWitness ==
    /\ Generated
    /\ call.op = "generate_proof"
    /\ call.index = 2
    /\ tree.height = 3
    /\ ~proof.proof_items[1].is_left
    /\ proof.proof_items[2].is_left

\* C10 as stated (membership soundness): whatever proof verifies against the
\* tree's root has a leaf that is one of the tree's leaf digests.
MembershipSoundness ==
    (origin.kind # "none" /\ verify(proof, root(tree)))
        => \E i \in 1..leaf_count(tree) : tree.leaves[i] = proof.leaf

====
